---------------------------- MODULE Spec2Model ----------------------------
(***************************************************************************)
(* A model of batt4.py: the demand loader (load_month, load_months), the   *)
(* threshold generator (build_thresholds) and the sweep evaluator          *)
(* (compute_threshold_sweep_stats_highest).                                *)
(*                                                                         *)
(* NUMBERS.  The program computes with IEEE-754 binary64 floats.  A number *)
(* of the model is a record [k, e] that denotes the real value             *)
(*                                                                         *)
(*        k * 2^-12  +  e * 2^-54        (kW, or kWh for an energy)        *)
(*                                                                         *)
(* k counts steps of 2^-12 (about 0.00024, finer than the 3 decimals the   *)
(* rows are rounded to) and e counts steps of 2^-54 (about 5.6e-17, finer  *)
(* than the 1e-12 tolerance of the sweep).  |e| stays far below 2^42, so   *)
(* the pair is unique and the order is lexicographic.  RoundF rounds such  *)
(* a value to the nearest binary64 (ties to even), so FlAdd and FlSub are  *)
(* the program's float + and -.  Infinities and NaN are not modelled.      *)
(***************************************************************************)
EXTENDS Integers, Sequences, FiniteSets

VARIABLES
    start_kw, end_kw, step_kw,   \* arguments of build_thresholds
    H, Hs, bt_pc,                \* its locals and its position
    days, dt2,                   \* arguments of the sweep: the day series, and
                                 \* dt_h counted in half hours (dt_h = dt2 / 2)
    rows, sw_pc,                 \* the sweep's rows and its position
    dataset, year_months,        \* the sheet's readings; load_months' selectors
    all_days, ld_i, ld_pc,       \* load_months' list, loop index and position
    loaded                       \* what load_months returned, if it did

btVars == <<start_kw, end_kw, step_kw, H, Hs, bt_pc>>
swVars == <<days, dt2, rows, sw_pc>>
ldVars == <<dataset, year_months, all_days, ld_i, ld_pc, loaded>>
vars == <<btVars, swVars, ldVars>>

---------------------------------------------------------------------------
(* Bounds of the model *)

\* longest threshold list the model records; a loop that has not returned
\* by then is left where it is
MaxLen == 18

---------------------------------------------------------------------------
(* Number representation *)

KUnit == 2^12          \* k-steps per 1 kW

Num(k, e) == [k |-> k, e |-> e]
Zero == Num(0, 0)
KW(n) == Num(n * KUnit, 0)            \* n kW, n an integer
Frac(n) == Num(2 * n, 0)              \* n * 2^-11 kW
Tiny(n) == Num(0, 2048 * n)           \* n * 2^-43 kW

Lt(a, b) == a.k < b.k \/ (a.k = b.k /\ a.e < b.e)
Le(a, b) == a.k < b.k \/ (a.k = b.k /\ a.e <= b.e)
Gt(a, b) == Lt(b, a)
Ge(a, b) == Le(b, a)
IsPos(a) == Gt(a, Zero)
IsZero(a) == a.k = 0 /\ a.e = 0

Abs(n) == IF n < 0 THEN -n ELSE n
Sign(n) == IF n < 0 THEN -1 ELSE IF n > 0 THEN 1 ELSE 0

\* the j with 2^j <= a < 2^(j+1), for 1 <= a < 2^31; 0 for a = 0
FloorLog2(a) ==
    IF a < 2 THEN 0
    ELSE CHOOSE j \in 1..30 : 2^j <= a /\ a \div 2 < 2^j

\* nearest multiple of q to n, a tie going to the even multiple
RoundHalfEven(n, q) ==
    LET lo == (n \div q) * q
        r  == n - lo
    IN  IF 2 * r < q THEN lo
        ELSE IF 2 * r > q THEN lo + q
        ELSE IF (lo \div q) % 2 = 0 THEN lo ELSE lo + q

\* The binade of a value whose k-part is k # 0 and whose e-part has sign se:
\* the j with 2^j <= |value| / 2^-12 < 2^(j+1).
Binade(k, se) ==
    LET a == Abs(k)
        j == FloorLog2(a)
    IN  IF a = 2^j /\ se * Sign(k) < 0 THEN j - 1 ELSE j

\* The spacing of binary64 numbers in binade j, in e-steps (1 when finer).
UlpSteps(j) == IF j > 10 THEN 2^(j - 10) ELSE 1

\* The exact value [k, e] rounded to the nearest binary64.
RoundF(x) ==
    IF x.k = 0 THEN x
    ELSE Num(x.k, RoundHalfEven(x.e, UlpSteps(Binade(x.k, Sign(x.e)))))

FlAdd(a, b) == RoundF(Num(a.k + b.k, a.e + b.e))
FlSub(a, b) == RoundF(Num(a.k - b.k, a.e - b.e))

---------------------------------------------------------------------------
(* build_thresholds *)

\* mutant of PastEndDown: stops one step early when a value lands on end
PastEndDownLe(nxt, end) == Le(nxt, end)

\* line 88: nxt < end_kw
PastEndDown(nxt, end) == Lt(nxt, end)

\* line 96: nxt > end_kw
PastEndUp(nxt, end) == Gt(nxt, end)

\* lines 80-81: a zero step raises ValueError
BuildThresholdsRaise ==
    /\ bt_pc = "call"
    /\ IsZero(step_kw)
    /\ bt_pc' = "error"
    /\ UNCHANGED <<start_kw, end_kw, step_kw, H, Hs>>
    /\ UNCHANGED <<swVars, ldVars>>

\* lines 82-83: Hs = [], H = start_kw
BuildThresholdsCall ==
    /\ bt_pc = "call"
    /\ ~IsZero(step_kw)
    /\ Hs' = <<>>
    /\ H' = start_kw
    /\ bt_pc' = "loop"
    /\ UNCHANGED <<start_kw, end_kw, step_kw>>
    /\ UNCHANGED <<swVars, ldVars>>

\* lines 85-91: one iteration of the descending loop
BuildThresholdsDown ==
    /\ bt_pc = "loop"
    /\ Lt(step_kw, Zero)
    /\ Len(Hs) < MaxLen
    /\ LET nxt == FlAdd(H, step_kw)
       IN  IF PastEndDown(nxt, end_kw)
           THEN /\ Hs' = Append(Append(Hs, H), nxt)
                /\ bt_pc' = "done"
                /\ H' = H
           ELSE /\ Hs' = Append(Hs, H)
                /\ H' = nxt
                /\ bt_pc' = "loop"
    /\ UNCHANGED <<start_kw, end_kw, step_kw>>
    /\ UNCHANGED <<swVars, ldVars>>

\* lines 93-99: one iteration of the ascending loop
BuildThresholdsUp ==
    /\ bt_pc = "loop"
    /\ ~Lt(step_kw, Zero)
    /\ Len(Hs) < MaxLen
    /\ LET nxt == FlAdd(H, step_kw)
       IN  IF PastEndUp(nxt, end_kw)
           THEN /\ Hs' = Append(Append(Hs, H), nxt)
                /\ bt_pc' = "done"
                /\ H' = H
           ELSE /\ Hs' = Append(Hs, H)
                /\ H' = nxt
                /\ bt_pc' = "loop"
    /\ UNCHANGED <<start_kw, end_kw, step_kw>>
    /\ UNCHANGED <<swVars, ldVars>>

BuildThresholds ==
    \/ BuildThresholdsRaise
    \/ BuildThresholdsCall
    \/ BuildThresholdsDown
    \/ BuildThresholdsUp

---------------------------------------------------------------------------
(* compute_threshold_sweep_stats_highest *)

UNIT_KWH == 233
MAX_POWER_KW_PER_UNIT == 105

\* The tolerance 1e-12 of lines 141 and 144, in e-steps: the binary64 nearest
\* to 1e-12 is (EpsSteps + f) * 2^-54 with 0 < f < 1/2 (f is about 0.3985).
EpsSteps == 18014

\* a day that is no day: highest_energy_day = None
NoDay == 0

Max0(x) == IF Gt(x, Zero) THEN x ELSE Zero

\* line 137: shave = np.maximum(D - H, 0.0)
Shave(D, h) == [i \in 1..Len(D) |-> Max0(FlSub(D[i], h))]

\* acc + s[i] + s[i + by] + ..., over the indices up to n, added in turn
RECURSIVE AddEach(_, _, _, _, _)
AddEach(acc, s, i, by, n) ==
    IF i > n THEN acc ELSE AddEach(FlAdd(acc, s[i]), s, i + by, by, n)

\* numpy's block size for pairwise summation (PW_BLOCKSIZE)
PwBlock == 128

\* numpy's pairwise sum of s[lo..hi], which np.sum runs on a contiguous
\* array: fewer than 8 elements are added left to right; up to PwBlock
\* elements go to 8 running sums r[j] of every 8th element, which are added
\* as ((r0+r1)+(r2+r3))+((r4+r5)+(r6+r7)), and the elements past the last
\* whole group of 8 are then added in turn; a longer array is split at a
\* multiple of 8 near its middle and the two sums are added.
RECURSIVE PairwiseSum(_, _, _)
PairwiseSum(s, lo, hi) ==
    LET n == hi - lo + 1
    IN  IF n < 8 THEN AddEach(Zero, s, lo, 1, hi)
        ELSE IF n <= PwBlock
        THEN LET m == n - (n % 8)
                 r(j) == AddEach(s[lo + j], s, lo + j + 8, 8, lo + m - 1)
                 res == FlAdd(FlAdd(FlAdd(r(0), r(1)), FlAdd(r(2), r(3))),
                              FlAdd(FlAdd(r(4), r(5)), FlAdd(r(6), r(7))))
             IN  AddEach(res, s, lo + m, 1, hi)
        ELSE LET h  == n \div 2
                 n2 == h - (h % 8)
             IN  FlAdd(PairwiseSum(s, lo, lo + n2 - 1),
                       PairwiseSum(s, lo + n2, hi))

\* line 138: np.sum(shave)
SumF(s) == PairwiseSum(s, 1, Len(s))

\* np.max of a non-empty array
MaxF(s) ==
    s[CHOOSE i \in 1..Len(s) : \A j \in 1..Len(s) : Ge(s[i], s[j])]

\* x * dt_h, with dt_h = d2 / 2; k and e of x are even
MulDt(x, d2) == RoundF(Num((x.k * d2) \div 2, (x.e * d2) \div 2))

\* line 138: E = float(np.sum(shave) * dt_h)
DayEnergy(D, h, d2) == MulDt(SumF(Shave(D, h)), d2)

\* line 139: P = float(np.max(shave)) if shave.size else 0
DayPeak(D, h) == IF Len(D) = 0 THEN Zero ELSE MaxF(Shave(D, h))

\* lines 141, 144: x > h + 1e-12, the sum rounded to binary64 (h >= 0).
\* The exact sum has e-part h.e + EpsSteps + f; in a binade whose spacing is
\* one e-step or finer the comparison with an x on the grid comes to
\* x.e > h.e + EpsSteps, and in a coarser binade the sum rounds to a multiple
\* of the spacing (never a tie, f being no dyadic fraction).
GtEps(x, h) ==
    LET s == h.e + EpsSteps
        q == IF h.k = 0 THEN 1
             ELSE UlpSteps(Binade(h.k, IF s >= 0 THEN 1 ELSE -1))
        t == IF q = 1 THEN s ELSE ((s + q \div 2) \div q) * q
    IN  x.k > h.k \/ (x.k = h.k /\ x.e > t)

\* lines 130-146: the scan of the first n days for threshold h
RECURSIVE Scan(_, _, _, _)
Scan(ds, h, d2, n) ==
    IF n = 0
    THEN [highest_energy |-> Zero, highest_energy_day |-> NoDay,
          highest_peak |-> Zero, highest_peak_day |-> NoDay]
    ELSE LET prev == Scan(ds, h, d2, n - 1)
             E == DayEnergy(ds[n].demand, h, d2)
             P == DayPeak(ds[n].demand, h)
             moreE == GtEps(E, prev.highest_energy)
             moreP == GtEps(P, prev.highest_peak)
         IN  [highest_energy |-> IF moreE THEN E ELSE prev.highest_energy,
              highest_energy_day |->
                  IF moreE THEN ds[n].date ELSE prev.highest_energy_day,
              highest_peak |-> IF moreP THEN P ELSE prev.highest_peak,
              highest_peak_day |->
                  IF moreP THEN ds[n].date ELSE prev.highest_peak_day]

\* int(np.ceil(x / c)) for x >= 0 and a whole number c of kW or kWh
CeilDiv(x, c) ==
    LET qd == x.k \div (c * KUnit)
        r  == x.k % (c * KUnit)
    IN  IF r > 0 \/ (r = 0 /\ x.e > 0) THEN qd + 1 ELSE qd

MaxInt(a, b) == IF a >= b THEN a ELSE b

\* mutant of UnitsNeeded: at least one unit whatever is shaved
UnitsNeededAtLeastOne(units_power, units_energy, highest_peak, highest_energy) ==
    MaxInt(1, MaxInt(units_power, units_energy))

\* mutant of UnitsNeeded: the units are sized by power alone
UnitsNeededPowerOnly(units_power, units_energy, highest_peak, highest_energy) ==
    IF units_power = 0 /\ (IsPos(highest_peak) \/ IsPos(highest_energy))
    THEN 1 ELSE units_power

\* lines 151-155
UnitsNeeded(units_power, units_energy, highest_peak, highest_energy) ==
    LET m == MaxInt(units_power, units_energy)
    IN  IF m = 0 /\ (IsPos(highest_peak) \/ IsPos(highest_energy)) THEN 1 ELSE m

\* mutant of FitsUnits: the stack's power shrinks as units are added
FitsUnitsInverted(u, highest_peak, highest_energy) ==
    /\ Le(highest_peak, KW((5 - u) * MAX_POWER_KW_PER_UNIT))
    /\ Le(highest_energy, KW(u * UNIT_KWH))

\* lines 160-162
FitsUnits(u, highest_peak, highest_energy) ==
    /\ Le(highest_peak, KW(u * MAX_POWER_KW_PER_UNIT))
    /\ Le(highest_energy, KW(u * UNIT_KWH))

\* lines 165-172
Limiting(units_power, units_energy, highest_peak, highest_energy) ==
    IF IsZero(highest_peak) /\ IsZero(highest_energy) THEN "No shaving"
    ELSE IF units_power > units_energy THEN "Power-limited"
    ELSE IF units_energy > units_power THEN "Energy-limited"
    ELSE "Both energy and power"

\* round(x, 3), as a count of thousandths: the nearest multiple of 0.001 to
\* the exact value, a tie going to the even one
Round3(x) ==
    LET w   == x.k \div KUnit
        f   == x.k % KUnit
        m   == (125 * f) \div 512
        rem == (125 * f) % 512
        up  == \/ rem > 256
               \/ rem = 256 /\ (x.e > 0 \/ (x.e = 0 /\ m % 2 = 1))
    IN  1000 * w + m + (IF up THEN 1 ELSE 0)

\* line 188: round(H, 3)
RowThreshold(h) == Round3(h)

\* lines 130-202: the row of threshold h.  H, highest_energy and highest_peak
\* are the unrounded locals the row was made from; Payback_years and
\* Efficiency record only whether a number or None is reported.
MakeRow(h, ds, d2) ==
    LET sc == Scan(ds, h, d2, Len(ds))
        highest_energy == sc.highest_energy
        highest_peak == sc.highest_peak
        units_power == CeilDiv(highest_peak, MAX_POWER_KW_PER_UNIT)
        units_energy == CeilDiv(highest_energy, UNIT_KWH)
        units_needed == UnitsNeeded(units_power, units_energy,
                                    highest_peak, highest_energy)
        min_capacity_kwh == units_needed * UNIT_KWH
        economics == IsPos(highest_peak) /\ min_capacity_kwh > 0
    IN  [Threshold_kW |-> RowThreshold(h),
         Highest_Energy_kWh |-> Round3(highest_energy),
         Highest_Energy_Day |-> sc.highest_energy_day,
         Highest_Peak_Shaved_kW |-> Round3(highest_peak),
         Highest_Peak_Day |-> sc.highest_peak_day,
         Min_Units_Required |-> units_needed,
         Min_Capacity_kWh |-> min_capacity_kwh,
         Limiting_Factor |-> Limiting(units_power, units_energy,
                                      highest_peak, highest_energy),
         Payback_years |-> IF economics THEN "number" ELSE "None",
         Efficiency |-> IF economics THEN "number" ELSE "None",
         Fits |-> [u \in 1..4 |-> FitsUnits(u, highest_peak, highest_energy)],
         H |-> h,
         highest_energy |-> highest_energy,
         highest_peak |-> highest_peak]

\* line 117: build_thresholds raised, and so does the sweep
SweepRaise ==
    /\ sw_pc = "thresholds"
    /\ bt_pc = "error"
    /\ sw_pc' = "error"
    /\ UNCHANGED <<days, dt2, rows>>
    /\ UNCHANGED <<btVars, ldVars>>

\* lines 117-128: thresholds returned; the day arrays are cached, rows = []
SweepBegin ==
    /\ sw_pc = "thresholds"
    /\ bt_pc = "done"
    /\ rows' = <<>>
    /\ sw_pc' = "rows"
    /\ UNCHANGED <<days, dt2>>
    /\ UNCHANGED <<btVars, ldVars>>

\* mutant of NextThreshold: the thresholds are walked from the end
NextThresholdReversed(thresholds, n) == thresholds[Len(thresholds) - n]

\* line 129: the threshold that "for H in thresholds" reads after n rows
NextThreshold(thresholds, n) == thresholds[n + 1]

\* lines 129-202: one iteration of "for H in thresholds"
SweepRow ==
    /\ sw_pc = "rows"
    /\ Len(rows) < Len(Hs)
    /\ rows' = Append(rows, MakeRow(NextThreshold(Hs, Len(rows)), days, dt2))
    /\ UNCHANGED <<days, dt2, sw_pc>>
    /\ UNCHANGED <<btVars, ldVars>>

\* line 204: return rows
SweepReturn ==
    /\ sw_pc = "rows"
    /\ Len(rows) = Len(Hs)
    /\ sw_pc' = "done"
    /\ UNCHANGED <<days, dt2, rows>>
    /\ UNCHANGED <<btVars, ldVars>>

Sweep ==
    \/ SweepRaise
    \/ SweepBegin
    \/ SweepRow
    \/ SweepReturn

---------------------------------------------------------------------------
(* load_month and load_months *)

\* A reading is a row of the sheet: start_time as year, month, day, hour and
\* minute, and kw_import.  A date is [year, month, day].
DateOf(r) == [year |-> r.year, month |-> r.month, day |-> r.day]

DateLt(a, b) ==
    \/ a.year < b.year
    \/ a.year = b.year /\ a.month < b.month
    \/ a.year = b.year /\ a.month = b.month /\ a.day < b.day

TimeLt(a, b) ==
    \/ DateLt(DateOf(a), DateOf(b))
    \/ DateOf(a) = DateOf(b) /\ a.hour < b.hour
    \/ DateOf(a) = DateOf(b) /\ a.hour = b.hour /\ a.minute < b.minute

\* line 46: the rows of the selector's year and month
Matches(r, sel) == r.year = sel[1] /\ r.month = sel[2]

\* line 54: 14:00 inclusive to 22:00 exclusive
InWindow(r) == r.hour >= 14 /\ r.hour < 22

\* the dates of the set S in ascending order (groupby sorts its keys)
RECURSIVE AscendingDates(_)
AscendingDates(S) ==
    IF S = {} THEN <<>>
    ELSE LET m == CHOOSE x \in S : \A y \in S : ~DateLt(y, x)
         IN  <<m>> \o AscendingDates(S \ {m})

\* line 51: the readings of the set S sorted by start_time
RECURSIVE AscendingTimes(_)
AscendingTimes(S) ==
    IF S = {} THEN <<>>
    ELSE LET m == CHOOSE x \in S : \A y \in S : ~TimeLt(y, x)
         IN  <<m>> \o AscendingTimes(S \ {m})

\* lines 57-59: the day series of a date group restricted to the window
DaySeries(g2, day) ==
    LET rs == AscendingTimes(g2)
    IN  [date |-> day,
         demand |-> [i \in 1..Len(rs) |-> rs[i].kw],
         labels |-> [i \in 1..Len(rs) |-> <<rs[i].hour, rs[i].minute>>]]

\* mutant of LoadMonth: a month with no reading in the window loads as no day
LoadMonthLenient(rs, sel) ==
    LET dfm == {r \in rs : Matches(r, sel)}
        g2(day) == {r \in dfm : DateOf(r) = day /\ InWindow(r)}
        kept == {day \in {DateOf(r) : r \in dfm} : g2(day) # {}}
        ds == AscendingDates(kept)
    IN  [ok |-> dfm # {},
         days |-> [i \in 1..Len(ds) |-> DaySeries(g2(ds[i]), ds[i])]]

\* lines 41-63: load_month on the readings rs; ok is FALSE when it raises
LoadMonth(rs, sel) ==
    LET dfm == {r \in rs : Matches(r, sel)}
        g2(day) == {r \in dfm : DateOf(r) = day /\ InWindow(r)}
        kept == {day \in {DateOf(r) : r \in dfm} : g2(day) # {}}
        ds == AscendingDates(kept)
    IN  IF dfm = {} \/ kept = {}
        THEN [ok |-> FALSE, days |-> <<>>]
        ELSE [ok |-> TRUE,
              days |-> [i \in 1..Len(ds) |-> DaySeries(g2(ds[i]), ds[i])]]

\* list.sort is stable: x goes after the elements whose key is not greater
RECURSIVE InsertByDate(_, _)
InsertByDate(s, x) ==
    IF Len(s) = 0 THEN <<x>>
    ELSE IF DateLt(x.date, s[Len(s)].date)
         THEN Append(InsertByDate(SubSeq(s, 1, Len(s) - 1), x), s[Len(s)])
         ELSE Append(s, x)

\* mutant of SortByDate: the list is returned as concatenated
NotSorted(s) == s

\* line 71: all_days.sort(key=lambda x: x[0])
RECURSIVE SortByDate(_)
SortByDate(s) ==
    IF Len(s) = 0 THEN <<>>
    ELSE InsertByDate(SortByDate(SubSeq(s, 1, Len(s) - 1)), s[Len(s)])

NotLoaded == [returned |-> FALSE, days |-> <<>>]

\* lines 69-70: the selector loads and its days are appended
LoadMonthsExtend ==
    /\ ld_pc = "loop"
    /\ ld_i <= Len(year_months)
    /\ LoadMonth(dataset, year_months[ld_i]).ok
    /\ all_days' = all_days \o LoadMonth(dataset, year_months[ld_i]).days
    /\ ld_i' = ld_i + 1
    /\ UNCHANGED <<dataset, year_months, ld_pc, loaded>>
    /\ UNCHANGED <<btVars, swVars>>

\* line 70: load_month raises and load_months with it
LoadMonthsRaise ==
    /\ ld_pc = "loop"
    /\ ld_i <= Len(year_months)
    /\ ~LoadMonth(dataset, year_months[ld_i]).ok
    /\ ld_pc' = "error"
    /\ UNCHANGED <<dataset, year_months, all_days, ld_i, loaded>>
    /\ UNCHANGED <<btVars, swVars>>

\* lines 71-72: the list is sorted by date and returned
LoadMonthsReturn ==
    /\ ld_pc = "loop"
    /\ ld_i > Len(year_months)
    /\ all_days' = SortByDate(all_days)
    /\ loaded' = [returned |-> TRUE, days |-> SortByDate(all_days)]
    /\ ld_pc' = "done"
    /\ UNCHANGED <<dataset, year_months, ld_i>>
    /\ UNCHANGED <<btVars, swVars>>

LoadMonths ==
    \/ LoadMonthsExtend
    \/ LoadMonthsRaise
    \/ LoadMonthsReturn

---------------------------------------------------------------------------
(* Specification of build_thresholds alone *)

SWEEP_START_KW == 1100
SWEEP_END_KW == 695
SWEEP_STEP_KW == -25

BtStarts == {KW(SWEEP_START_KW), KW(1025), KW(1024), KW(3), KW(1), Zero, Frac(3)}
BtEnds == {KW(SWEEP_END_KW), KW(1000), KW(2), Zero, KW(-1)}
BtSteps == {KW(SWEEP_STEP_KW), KW(-1), Frac(-1), Tiny(-1), Zero,
            Tiny(1), Frac(1), KW(1), KW(-SWEEP_STEP_KW)}

InitThresholds ==
    /\ start_kw \in BtStarts
    /\ end_kw \in BtEnds
    /\ step_kw \in BtSteps
    /\ H = Zero
    /\ Hs = <<>>
    /\ bt_pc = "call"
    /\ days = <<>>
    /\ dt2 = 1
    /\ rows = <<>>
    /\ sw_pc = "idle"
    /\ dataset = {}
    /\ year_months = <<>>
    /\ all_days = <<>>
    /\ ld_i = 1
    /\ ld_pc = "idle"
    /\ loaded = NotLoaded

NextThresholds == BuildThresholds

SpecThresholds == InitThresholds /\ [][NextThresholds]_vars

---------------------------------------------------------------------------
(* Specification of the sweep: build_thresholds, then one row a threshold *)

\* most days of one sweep
MaxDays == 2

\* (start_kw, end_kw, step_kw): the program's own sweep, short sweeps down
\* and up, steps far below 0.001 and below 1e-12, and a zero step
SweepArgs ==
    { <<KW(SWEEP_START_KW), KW(SWEEP_END_KW), KW(SWEEP_STEP_KW)>>,
      <<KW(100), KW(50), KW(-25)>>,
      <<KW(800), KW(800), KW(-25)>>,
      <<KW(50), KW(100), KW(25)>>,
      <<Frac(3), Zero, Frac(-1)>>,
      <<Zero, Zero, Tiny(-1)>>,
      <<KW(100), KW(50), Zero>> }

\* demand arrays of a day (kW): none, whole kilowatts, values that lie
\* within 1e-12 of each other or of a multiple of the unit ratings, and days
\* of 8 and of 16 readings (a real day has 16), whose small readings add up
\* differently in numpy's order than left to right
DayPool ==
    { <<>>,
      [i \in 1..8 |-> IF i = 1 THEN Num(238592, 0) ELSE Num(0, 32)],
      [i \in 1..16 |-> IF i = 1 THEN KW(1025) ELSE Tiny(1)],
      <<KW(850), KW(820)>>,
      <<KW(880)>>,
      <<KW(60), KW(120)>>,
      <<Tiny(5)>>,
      <<Num(119296, -2048), Num(119296, -2048)>>,
      <<Num(238592, 2048)>> }

\* dt_h in half hours: 0, 0.5 (INTERVAL_HOURS), 1 and 4 hours
DtHalves == {0, 1, 2, 8}

DaySeqs ==
    UNION { [1..n -> DayPool] : n \in 0..MaxDays }

Init ==
    /\ \E a \in SweepArgs :
           /\ start_kw = a[1]
           /\ end_kw = a[2]
           /\ step_kw = a[3]
    /\ H = Zero
    /\ Hs = <<>>
    /\ bt_pc = "call"
    /\ \E ds \in DaySeqs :
           days = [i \in 1..Len(ds) |-> [date |-> i, demand |-> ds[i]]]
    /\ dt2 \in DtHalves
    /\ rows = <<>>
    /\ sw_pc = "thresholds"
    /\ dataset = {}
    /\ year_months = <<>>
    /\ all_days = <<>>
    /\ ld_i = 1
    /\ ld_pc = "idle"
    /\ loaded = NotLoaded

Next == BuildThresholds \/ Sweep

Spec == Init /\ [][Next]_vars

---------------------------------------------------------------------------
(* Specification of load_months *)

\* most readings of a sheet, and most selectors of one call
MaxReadings == 3
MaxSelectors == 2

\* YEAR_MONTHS of line 13, and the same month a year earlier
Selectors == { <<2025, 5>>, <<2025, 6>>, <<2024, 6>> }

\* day and start time: both sides of both ends of the window, a day with
\* two readings inside it and a day with one
DayTimes ==
    { <<1, 13, 30>>, <<1, 14, 0>>, <<1, 21, 30>>, <<2, 21, 30>>, <<2, 22, 0>> }

Readings ==
    { [year |-> sel[1], month |-> sel[2], day |-> t[1],
       hour |-> t[2], minute |-> t[3], kw |-> KW(100 * t[1] + t[2])] :
        sel \in Selectors, t \in DayTimes }

Sheets == { rs \in SUBSET Readings : Cardinality(rs) <= MaxReadings }

InitLoad ==
    /\ dataset \in Sheets
    /\ year_months \in UNION { [1..n -> Selectors] : n \in 0..MaxSelectors }
    /\ all_days = <<>>
    /\ ld_i = 1
    /\ ld_pc = "loop"
    /\ loaded = NotLoaded
    /\ start_kw = Zero
    /\ end_kw = Zero
    /\ step_kw = Zero
    /\ H = Zero
    /\ Hs = <<>>
    /\ bt_pc = "idle"
    /\ days = <<>>
    /\ dt2 = 1
    /\ rows = <<>>
    /\ sw_pc = "idle"

NextLoad == LoadMonths

SpecLoad == InitLoad /\ [][NextLoad]_vars

---------------------------------------------------------------------------
(* Claims about build_thresholds *)

Last(s) == s[Len(s)]
Descending == Lt(step_kw, Zero)
IsDefaultSweep ==
    /\ start_kw = KW(SWEEP_START_KW)
    /\ end_kw = KW(SWEEP_END_KW)
    /\ step_kw = KW(SWEEP_STEP_KW)

\* C1 as stated: for every start, every end and every step < 0 the returned
\* sequence begins with start, its consecutive elements differ by exactly
\* step, and exactly one element, the last, is strictly less than end.
C1_AsStated ==
    (bt_pc = "done" /\ Descending) =>
        /\ Hs[1] = start_kw
        /\ \A i \in 1..(Len(Hs) - 1) :
               Num(Hs[i+1].k - Hs[i].k, Hs[i+1].e - Hs[i].e) = step_kw
        /\ Cardinality({i \in 1..Len(Hs) : Lt(Hs[i], end_kw)}) = 1
        /\ Lt(Last(Hs), end_kw)

\* C1 amended: for every step < 0 and every start >= end, the sequence built
\* begins with start, each further element is the float sum of its
\* predecessor and step, every element but a final over-step is >= end, and
\* on return exactly one element, the last, is strictly less than end; for
\* 1100, 695, -25 the last two elements are 700 and 675.
C1_DescendingSequence ==
    (bt_pc \in {"loop", "done"} /\ Descending /\ Ge(start_kw, end_kw)) =>
        /\ Len(Hs) >= 1 => Hs[1] = start_kw
        /\ bt_pc = "loop" => (Len(Hs) = 0 => H = start_kw) /\ Ge(H, end_kw)
        /\ \A i \in 1..(Len(Hs) - 1) : Hs[i+1] = FlAdd(Hs[i], step_kw)
        /\ \A i \in 1..Len(Hs) :
               Lt(Hs[i], end_kw) <=> (bt_pc = "done" /\ i = Len(Hs))
        /\ bt_pc = "done" =>
               /\ Len(Hs) >= 2
               /\ Cardinality({i \in 1..Len(Hs) : Lt(Hs[i], end_kw)}) = 1
               /\ IsDefaultSweep =>
                      /\ Hs[Len(Hs) - 1] = KW(700)
                      /\ Last(Hs) = KW(675)

\* C1 witness: the default sweep 1100, 695, -25 has returned its 18 values.
C1_Witness ==
    /\ bt_pc = "done"
    /\ IsDefaultSweep
    /\ Len(Hs) = 18
    /\ Last(Hs) = KW(675)

\* C9 as stated: for every finite start and end and every non-zero step the
\* stepping loop stops.  The loop is deterministic and what it does next
\* depends on H alone, so it stops exactly when no iteration it reaches
\* leaves H where it is without leaving the loop: stated as that invariant.
C9_LoopAlwaysAdvances ==
    bt_pc = "loop" =>
        LET nxt == FlAdd(H, step_kw)
            leaves == IF Descending THEN PastEndDown(nxt, end_kw)
                                    ELSE PastEndUp(nxt, end_kw)
        IN  nxt # H \/ leaves

---------------------------------------------------------------------------
(* Claims about the sweep *)

RowIds == 1..Len(rows)
DayIds == 1..Len(days)

\* the shaving peak and energy of day d at threshold h, as the code has them
PeakOf(d, h) == DayPeak(days[d].demand, h)
EnergyOf(d, h) == DayEnergy(days[d].demand, h, dt2)

\* the greatest of a day-indexed family of numbers, 0 over no day
MaxOver(f(_)) ==
    IF DayIds = {} THEN Zero
    ELSE LET d == CHOOSE d \in DayIds : \A c \in DayIds : Ge(f(d), f(c))
         IN  Max0(f(d))

\* the first day whose number is v
FirstDay(f(_), v) ==
    days[CHOOSE d \in DayIds :
             /\ f(d) = v
             /\ \A c \in 1..(d - 1) : f(c) # v].date

\* C2 as stated: on one day set, for thresholds H1 <= H2 the row of H2 has
\* highest_energy and highest_peak no greater than the row of H1.
C2_ShavingMonotone ==
    \A i, j \in RowIds :
        Le(rows[i].H, rows[j].H) =>
            /\ Le(rows[j].highest_energy, rows[i].highest_energy)
            /\ Le(rows[j].highest_peak, rows[i].highest_peak)

\* C3 as stated: on one day set, for thresholds H1 < H2 the row of H1 needs
\* at least as many units as the row of H2.
C3_UnitsMonotone ==
    \A i, j \in RowIds :
        Lt(rows[i].H, rows[j].H) =>
            rows[i].Min_Units_Required >= rows[j].Min_Units_Required

NothingAbove(h) ==
    \A d \in DayIds : \A s \in 1..Len(days[d].demand) : Ge(h, days[d].demand[s])

\* C4: a row whose threshold is >= every demand sample of every day (no day
\* at all included) has highest_energy = 0, highest_peak = 0, no unit, no
\* capacity, the label 'No shaving', and no payback and no efficiency.
C4_ZeroShaving ==
    \A i \in RowIds :
        NothingAbove(rows[i].H) =>
            /\ rows[i].highest_energy = Zero
            /\ rows[i].highest_peak = Zero
            /\ rows[i].Highest_Energy_kWh = 0
            /\ rows[i].Highest_Peak_Shaved_kW = 0
            /\ rows[i].Min_Units_Required = 0
            /\ rows[i].Min_Capacity_kWh = 0
            /\ rows[i].Limiting_Factor = "No shaving"
            /\ rows[i].Payback_years = "None"
            /\ rows[i].Efficiency = "None"

\* C4 witness: a sweep over two days with samples has a row whose threshold
\* no sample exceeds, and a row that does shave.
C4_Witness ==
    /\ Len(days) = 2
    /\ \A d \in DayIds : Len(days[d].demand) > 0
    /\ \E i \in RowIds : NothingAbove(rows[i].H)
    /\ \E i \in RowIds : rows[i].Min_Units_Required > 0

\* C5: in every row, a stack that fits makes every larger stack fit.
C5_FitsMonotone ==
    \A i \in RowIds : \A u, u2 \in 1..4 :
        (u2 > u /\ rows[i].Fits[u]) => rows[i].Fits[u2]

\* C5 witness: a row in which one unit does not fit and two units do.
C5_Witness ==
    \E i \in RowIds : ~rows[i].Fits[1] /\ rows[i].Fits[2]

\* C6 as stated: in every row highest_peak is the greatest shaving peak of
\* any day and highest_energy the greatest shaving energy of any day, and
\* when that is positive the recorded day is the first day that attains it.
C6_HighestIsMaximum ==
    \A i \in RowIds :
        LET h == rows[i].H
            P(d) == PeakOf(d, h)
            E(d) == EnergyOf(d, h)
        IN  /\ rows[i].highest_peak = MaxOver(P)
            /\ rows[i].highest_energy = MaxOver(E)
            /\ IsPos(MaxOver(P)) =>
                   rows[i].Highest_Peak_Day = FirstDay(P, MaxOver(P))
            /\ IsPos(MaxOver(E)) =>
                   rows[i].Highest_Energy_Day = FirstDay(E, MaxOver(E))

\* the row's Threshold_kW is the value h itself: h is n / 1000 exactly
CarriesExactly(n, h) == h.e = 0 /\ 125 * h.k = 512 * n

\* C10 as stated: one row a generated threshold, the i-th row carrying the
\* i-th threshold, and no two rows with the same Threshold_kW.
C10_AsStated ==
    sw_pc = "done" =>
        /\ Len(rows) = Len(Hs)
        /\ \A i \in RowIds : CarriesExactly(rows[i].Threshold_kW, Hs[i])
        /\ \A i, j \in RowIds :
               i # j => rows[i].Threshold_kW # rows[j].Threshold_kW

\* two thresholds more than 0.001 apart (0.001 is 4.096 k-steps)
MoreThanMilliApart(a, b) == Abs(a.k - b.k) >= 5

\* C10 amended: one row a generated threshold, the i-th row carrying the
\* i-th threshold rounded to 3 decimals, and two rows have the same
\* Threshold_kW only when their thresholds are within 0.001 of each other.
C10_RowPerThreshold ==
    /\ sw_pc \in {"rows", "done"} =>
           /\ Len(rows) <= Len(Hs)
           /\ \A i \in RowIds :
                  /\ rows[i].H = Hs[i]
                  /\ rows[i].Threshold_kW = Round3(Hs[i])
           /\ \A i, j \in RowIds :
                  MoreThanMilliApart(Hs[i], Hs[j]) =>
                      rows[i].Threshold_kW # rows[j].Threshold_kW
    /\ sw_pc = "done" => Len(rows) = Len(Hs)

\* C10 witness: the program's own sweep has returned its 18 rows, from
\* 1100 down to 675.
C10_Witness ==
    /\ sw_pc = "done"
    /\ Len(rows) = 18
    /\ Len(days) > 0
    /\ rows[1].Threshold_kW = 1100000
    /\ rows[18].Threshold_kW = 675000

\* a stack of u units covers the row's worst case
Covers(u, row) ==
    /\ Le(row.highest_peak, KW(u * MAX_POWER_KW_PER_UNIT))
    /\ Le(row.highest_energy, KW(u * UNIT_KWH))

\* C11: in every row Min_Units_Required is the least whole number u >= 0 of
\* units whose stack covers the row's highest_peak and highest_energy; it is
\* 0 exactly when both are 0; and for u in 1..4 the flag Fits_u is true
\* exactly when u >= Min_Units_Required.
C11_LeastCoveringStack ==
    \A i \in RowIds :
        LET u == rows[i].Min_Units_Required
        IN  /\ u >= 0
            /\ Covers(u, rows[i])
            /\ \A v \in 0..(u - 1) : ~Covers(v, rows[i])
            /\ u = 0 <=> (IsZero(rows[i].highest_peak)
                            /\ IsZero(rows[i].highest_energy))
            /\ \A v \in 1..4 : rows[i].Fits[v] <=> v >= u

\* C11 witness: one sweep has a row that needs no unit, a row that energy
\* alone pushes to a second unit, and a row that needs more than 4 units.
C11_Witness ==
    /\ dt2 > 0
    /\ \E i \in RowIds : rows[i].Min_Units_Required = 0
    /\ \E i \in RowIds :
          /\ rows[i].Min_Units_Required = 2
          /\ rows[i].Limiting_Factor = "Energy-limited"
          /\ ~rows[i].Fits[1] /\ rows[i].Fits[2]
    /\ \E i \in RowIds :
          /\ rows[i].Min_Units_Required > 4
          /\ \A v \in 1..4 : ~rows[i].Fits[v]

---------------------------------------------------------------------------
(* Claims about load_months *)

\* the day series load_month produces for the first n selectors, in turn
RECURSIVE LoadedUpTo(_)
LoadedUpTo(n) ==
    IF n = 0 THEN <<>>
    ELSE LoadedUpTo(n - 1) \o LoadMonth(dataset, year_months[n]).days

Count(x, s) == Cardinality({i \in 1..Len(s) : s[i] = x})

SameDays(s, t) ==
    /\ Len(s) = Len(t)
    /\ \A i \in 1..Len(s) : Count(s[i], s) = Count(s[i], t)

MonthLt(a, b) ==
    a.year < b.year \/ (a.year = b.year /\ a.month < b.month)

\* the selector matches no row, or only rows outside the window
Unloadable(sel) ==
    \A r \in dataset : Matches(r, sel) => ~InWindow(r)

\* C7: when every selector loads, load_months returns the day series that
\* load_month produces for the selectors, each as often as it was produced,
\* in ascending order of date: no day of a later month stands before a day
\* of an earlier month, in whatever order the selectors were given.
C7_SortedConcatenation ==
    ld_pc = "done" =>
        /\ loaded.returned
        /\ SameDays(loaded.days, LoadedUpTo(Len(year_months)))
        /\ \A i, j \in 1..Len(loaded.days) :
              i < j => /\ ~DateLt(loaded.days[j].date, loaded.days[i].date)
                       /\ ~MonthLt(loaded.days[j].date, loaded.days[i].date)

\* June is given before May, and three days come back
C7_Witness ==
    /\ ld_pc = "done"
    /\ Len(year_months) = 2
    /\ year_months[1] = <<2025, 6>>
    /\ year_months[2] = <<2025, 5>>
    /\ Len(loaded.days) = 3

\* C8: when a selector matches no row, or only rows outside the window,
\* load_months never returns a day sequence; it stops with the error at the
\* first such selector, however many selectors before it have loaded.
C8_NoPartialResult ==
    (\E j \in 1..Len(year_months) : Unloadable(year_months[j])) =>
        /\ ld_pc \in {"loop", "error"}
        /\ ~loaded.returned
        /\ ld_i <= Len(year_months)
        /\ \A j \in 1..(ld_i - 1) : ~Unloadable(year_months[j])
        /\ Unloadable(year_months[ld_i]) =>
              ~LoadMonth(dataset, year_months[ld_i]).ok
        /\ ld_pc = "error" => Unloadable(year_months[ld_i])

\* the second selector fails after the first has loaded its days
C8_Witness ==
    /\ ld_pc = "error"
    /\ ld_i = 2
    /\ Len(all_days) >= 1
    /\ \E r \in dataset : Matches(r, year_months[2])
    /\ ~loaded.returned

===========================================================================
